---------------------------- MODULE Spec2Model ----------------------------
(***************************************************************************)
(* File-backed journal of autorunsite/ik (package journal).                *)
(*                                                                         *)
(* One journal (one key of one group) is modelled: its chunk dequeue, the  *)
(* chunks' reference counts, the files of the directory, the writer, the   *)
(* chunk wrappers (handles) handed to consumers, and the calls in flight   *)
(* in each thread.                                                         *)
(*                                                                         *)
(* Directions follow the source: chunks.first is the newest chunk,         *)
(* chunks.last the oldest; head.next points to the older neighbour and     *)
(* head.prev to the newer one.                                             *)
(*                                                                         *)
(* Each method is an operator on the state (a record of the variables).    *)
(* Spec and SpecNoFault run the methods one call at a time, SpecConc runs  *)
(* Purge, TakeOwnership, Dispose and deleteRef instruction by instruction  *)
(* in parallel threads, SpecFlush adds Flush with a visitor to them,        *)
(* SpecLock makes each Lock() of the two mutexes a step of its own,        *)
(* SpecDispose writes and disposes of the journal or its group,            *)
(* SpecScan writes, disposes of the group and opens it again from the      *)
(* files, SpecListen writes with recording listeners, SpecFactory calls    *)
(* GetJournalGroup for several paths and plugin instances, SpecNames scans *)
(* directories name by name and SpecSort sorts and validates the scanned   *)
(* chunk lists.                                                            *)
(***************************************************************************)
EXTENDS Integers, Sequences, FiniteSets, TLC

MaxChunks == 3        \* chunk files ever created by newChunk
MaxWrappers == 2      \* FileJournalChunkWrapper objects ever created
MaxLen == 3           \* longest record handed to Write
MaxFaults == 1        \* I/O errors injected in one run
maxSize == 2          \* group.maxSize
MaxTime == 2          \* latest reading of the clock (group.timeGetter)
NonceRange == 2       \* the random numbers of a file name: 0..NonceRange-1
MaxName == 5          \* longest name of a file that is not a journal's
MaxSort == 6          \* most files of one journal found by a scan
LockChunks == 2       \* chunk files created while Flush runs step by step
LockWrappers == 2     \* wrappers handed out while the mutexes are stepped

Nil == 0
ChunkIds == 1..MaxChunks
WrapperIds == 1..MaxWrappers
Listeners == {"l1"}   \* the callbacks a caller may register
Recorders == {"r1", "r2"}   \* callbacks that write down what they are handed
Paths == {"p1", "p2"}       \* the paths GetJournalGroup is called with
JournalPath == "p1"         \* the path of the group the journal belongs to
PluginInstances == {"a", "b"}
Threads == {"t1", "t2"}
NoThread == "none"
HeadType == "Head"    \* JournalFileType Head
Rest == "Rest"        \* JournalFileType Rest

VARIABLES
  chunk,      \* [ChunkIds -> FileJournalChunk]: head.next, head.prev, Type, refcount
  chunks,     \* journal.chunks: first, last, count
  nAlloc,     \* chunks allocated so far (the next chunk gets nAlloc + 1)
  disk,       \* [ChunkIds -> file name]: Type ("none": no file) and TSuffix
  data,       \* [ChunkIds -> Seq]: content of the chunk's file
  writer,     \* journal.writer: fd = Nil, or the chunk whose file it appends to
  position,   \* journal.position
  flushListeners,     \* journal.flushListeners (a set)
  newChunkListeners,  \* journal.newChunkListeners (a set)
  wrapper,    \* [WrapperIds -> FileJournalChunkWrapper]
  nWrap,      \* wrappers created so far
  th,         \* [Threads -> the call a thread is in, and where it stands]
  mtx,        \* journal.mtx: NoThread, or the thread that holds it
  nFault,     \* I/O errors injected so far
  crashed,    \* "no", or the panic that aborted the process
  notified,   \* what the recording listeners were handed so far, in order
  paths,      \* factory.paths: [Paths -> the group registered for the path]
  scan        \* a run of scanJournals over the names of a directory

vars == <<chunk, chunks, nAlloc, disk, data, writer, position, flushListeners,
          newChunkListeners, wrapper, nWrap, th, mtx, nFault, crashed,
          notified, paths, scan>>

(***************************************************************************)
(* The state as one record, so that the methods are functions of it.       *)
(***************************************************************************)
State ==
  [chunk |-> chunk, chunks |-> chunks, nAlloc |-> nAlloc, disk |-> disk,
   data |-> data, writer |-> writer, position |-> position,
   flushListeners |-> flushListeners, newChunkListeners |-> newChunkListeners,
   wrapper |-> wrapper, nWrap |-> nWrap, notified |-> notified,
   paths |-> paths, scan |-> scan]

Commit(s) ==
  /\ chunk' = s.chunk
  /\ chunks' = s.chunks
  /\ nAlloc' = s.nAlloc
  /\ disk' = s.disk
  /\ data' = s.data
  /\ writer' = s.writer
  /\ position' = s.position
  /\ flushListeners' = s.flushListeners
  /\ newChunkListeners' = s.newChunkListeners
  /\ wrapper' = s.wrapper
  /\ nWrap' = s.nWrap
  /\ notified' = s.notified
  /\ paths' = s.paths
  /\ scan' = s.scan

NoChunk == [next |-> Nil, prev |-> Nil, Type |-> "None", refcount |-> 0]
NoWrapper == [chunk |-> Nil, target |-> Nil, ownershipTaken |-> 0]
NoWriter == [fd |-> Nil, closed |-> FALSE]
NoFile == [Type |-> "none", TSuffix |-> 0]
\* A thread outside any call.  In a call: the method (op), the wrapper it was
\* called on (w), deleteRef's frames (stack: the chunk of each call, the
\* innermost last) and what the finished deleteRef returned.
\* A Flush in flight also has its local slice (chunks: Nil where nothing was
\* stored) and the index of its range loop (i).  locked: the thread holds
\* journal.chunks.mtx (the list mutex), where its blocks are steps of their
\* own.
Idle ==
  [pc |-> "idle", op |-> "", w |-> Nil, stack |-> <<>>, err |-> "",
   destroyed |-> FALSE, chunks |-> <<>>, i |-> 0, locked |-> FALSE]

\* What a method returns: the state it leaves, its error, and whether it
\* panicked (a Go panic aborts the process where it stands).
Result(s, err, panic) == [s |-> s, err |-> err, panic |-> panic]
Ok(s) == Result(s, "", "no")

\* A file exists at chunk.Path: the path is made of the chunk's TSuffix (its
\* identity here) and its Type.
PathExists(s, c) == s.disk[c].Type = s.chunk[c].Type

\* The chunks linked in the dequeue, newest first (from chunks.first along
\* head.next).
RECURSIVE WalkNext(_, _, _)
WalkNext(s, c, n) ==
  IF c = Nil \/ n = 0 THEN <<>> ELSE <<c>> \o WalkNext(s, s.chunk[c].next, n - 1)
Linked(s) == WalkNext(s, s.chunks.first, Len(s.chunk))
LinkedSet(s) == {Linked(s)[i] : i \in 1..Len(Linked(s))}

\* atomic.AddInt32(&chunk.refcount, d)
AddRef(s, c, d) == [s EXCEPT !.chunk[c].refcount = @ + d]

\* A deleteRef that leaves the chunk it destroyed in the dequeue.
UnlinkForgotten(s, c) == s

\* The locked block of deleteRef: chunk c leaves the dequeue.
Unlink(s, c) ==
  LET prevChunk == s.chunk[c].prev
      nextChunk == s.chunk[c].next
      s1 == IF prevChunk = Nil
              THEN [s EXCEPT !.chunks.first = nextChunk]
              ELSE [s EXCEPT !.chunk[prevChunk].next = nextChunk]
      s2 == IF nextChunk = Nil
              THEN [s1 EXCEPT !.chunks.last = prevChunk]
              ELSE [s1 EXCEPT !.chunk[nextChunk].prev = prevChunk]
  IN [s2 EXCEPT !.chunks.count = @ - 1]

\* os.Remove(chunk.Path) fails when the file is not there, or by an I/O
\* error (rmFail: the chunks whose removal the file system refuses).
RemoveFails(s, c, rmFail) == c \in rmFail \/ ~PathExists(s, c)
Remove(s, c) == [s EXCEPT !.disk[c] = NoFile, !.data[c] = <<>>]

\* deleteRef(chunk) -> (err, destroyed)
RECURSIVE deleteRef(_, _, _)
deleteRef(s, c, rmFail) ==
  LET s1 == AddRef(s, c, -1)
      refcount == s1.chunk[c].refcount
      prevChunk == s1.chunk[c].prev
      r == IF prevChunk # Nil
             THEN deleteRef(s1, prevChunk, rmFail)
             ELSE [s |-> s1, err |-> "", panic |-> "no", destroyed |-> FALSE]
  IN IF refcount = 0
       THEN IF r.panic # "no" THEN [r EXCEPT !.destroyed = FALSE]
            ELSE IF r.err # ""
              THEN [s |-> AddRef(r.s, c, 1), err |-> r.err, panic |-> "no",
                    destroyed |-> FALSE]
            ELSE IF RemoveFails(r.s, c, rmFail)
              THEN [s |-> AddRef(r.s, c, 1), err |-> "remove", panic |-> "no",
                    destroyed |-> FALSE]
            ELSE [s |-> Unlink(Remove(r.s, c), c), err |-> "", panic |-> "no",
                  destroyed |-> TRUE]
     ELSE IF refcount < 0
       THEN [s |-> s1, err |-> "", panic |-> "refcount", destroyed |-> FALSE]
     ELSE [s |-> s1, err |-> "", panic |-> "no", destroyed |-> FALSE]

\* newChunkWrapper(chunk): one more reference, held by a new wrapper.
newChunkWrapper(s, c) ==
  LET w == s.nWrap + 1
  IN [AddRef(s, c, 1) EXCEPT
        !.nWrap = w,
        !.wrapper[w] = [NoWrapper EXCEPT !.chunk = c, !.target = c]]

\* A callback (listener or visitor) is handed a fresh wrapper.  It either
\* keeps it (a wrapper of the table, used by the wrapper steps below) or
\* disposes of it before it returns; its error is only logged.
HandOut(s, c, keepit, rm) ==
  IF keepit /\ s.nWrap < MaxWrappers
    THEN newChunkWrapper(s, c)
    ELSE deleteRef(AddRef(s, c, 1), c, rm).s

\* listener(wrapper) of a recording listener: it writes down which map it was
\* called from (kind) and the chunk and Type it sees.
Record(s, l, kind, c) ==
  IF l \in Recorders
    THEN [s EXCEPT !.notified =
            Append(@, [listener |-> l, kind |-> kind, chunk |-> c,
                       Type |-> s.chunk[c].Type])]
    ELSE s

\* for _, listener := range listeners { listener(newChunkWrapper(chunk)) }
RECURSIVE notifyListeners(_, _, _, _, _)
notifyListeners(s, c, kind, listeners, io) ==
  IF listeners = {} THEN s
  ELSE LET l == CHOOSE x \in listeners : TRUE
       IN notifyListeners(HandOut(Record(s, l, kind, c), c, l \in io.keep, io.rm),
                          c, kind, listeners \ {l}, io)

notifyFlushListeners(s, c, io) ==
  notifyListeners(s, c, "flush", s.flushListeners, io)
notifyNewChunkListeners(s, c, io) ==
  notifyListeners(s, c, "new", s.newChunkListeners, io)

\* BuildJournalPath(key, type, time, rand): TSuffix is the time and the random
\* number in one number (its digits name the file).
BuildJournalPath(type, time, rand) ==
  [Type |-> type, TSuffix |-> time * NonceRange + rand]

\* DecodeJournalPath(variablePortion): the Timestamp is taken out of TSuffix.
DecodeJournalPath(file) ==
  [Type |-> file.Type, TSuffix |-> file.TSuffix,
   Timestamp |-> file.TSuffix \div NonceRange]

\* A finalizeChunk that tells the flush listeners before it renames the file.
finalizeChunkNotifyFirst(s, c, io) ==
  IF io.rename \/ ~PathExists(s, c)
    THEN Result(s, "rename", "no")
    ELSE Ok([notifyFlushListeners(s, c, io) EXCEPT
               !.chunk[c].Type = Rest, !.disk[c].Type = Rest])

\* finalizeChunk(chunk): rename to the Rest form, then tell the flush
\* listeners.  os.Rename fails when the file is not there or by an I/O error.
finalizeChunk(s, c, io) ==
  IF io.rename \/ ~PathExists(s, c)
    THEN Result(s, "rename", "no")
    ELSE Ok(notifyFlushListeners(
              [s EXCEPT !.chunk[c].Type = Rest, !.disk[c].Type = Rest], c, io))

\* file.Close(); os.Remove(chunk.Path) of newChunk's error paths (the result
\* of neither is looked at).
DropNewFile(s, c, io) == IF RemoveFails(s, c, io.rm) THEN s ELSE Remove(s, c)

\* newChunk(): io says which system calls fail and which listeners keep
\* their wrapper.
newChunk(s, io) ==
  LET c == s.nAlloc + 1
      info == BuildJournalPath(HeadType, io.time, io.nonce)
      \* os.OpenFile(O_CREATE|O_EXCL) fails when the name is taken
      exists == \E f \in ChunkIds :
                  s.disk[f] = [Type |-> info.Type, TSuffix |-> info.TSuffix]
      s1 == [s EXCEPT !.nAlloc = c,
                      !.chunk[c] = [next |-> s.chunks.first, prev |-> Nil,
                                    Type |-> HeadType, refcount |-> 1],
                      !.disk[c] = [Type |-> info.Type, TSuffix |-> info.TSuffix],
                      !.data[c] = <<>>]
      \* journal.writer.Close(): the descriptor is released whatever Close
      \* returns; closing a closed file is an error.
      closeErr == s1.writer.fd # Nil /\ (io.close \/ s1.writer.closed)
      s2 == IF s1.writer.fd # Nil THEN [s1 EXCEPT !.writer.closed = TRUE] ELSE s1
      \* the locked block
      oldHead == s2.chunks.first
      s3 == IF oldHead # Nil
              THEN [s2 EXCEPT !.chunk[oldHead].prev = c]
              ELSE [s2 EXCEPT !.chunks.last = c]
      s4 == [s3 EXCEPT !.chunk[c].next = s3.chunks.first,
                       !.chunks.first = c,
                       !.chunks.count = @ + 1]
      s5 == AddRef(s4, c, 1)                  \* for writer
      f == finalizeChunk(s5, oldHead, io)
      d == deleteRef(f.s, oldHead, io.rm)     \* writer-holding ref
      s6 == IF oldHead # Nil THEN d.s ELSE s5
      s7 == [s6 EXCEPT !.writer = [fd |-> c, closed |-> FALSE], !.position = 0]
  IN IF io.open \/ exists THEN Result(s, "open", "no")
     ELSE IF closeErr THEN Result([s2 EXCEPT !.chunk[c] = NoChunk], "close", "no")
     ELSE IF oldHead # Nil /\ f.err # "" THEN Result(DropNewFile(f.s, c, io), f.err, "no")
     ELSE IF oldHead # Nil /\ d.panic # "no" THEN Result(d.s, "", d.panic)
     ELSE IF oldHead # Nil /\ d.err # "" THEN Result(DropNewFile(d.s, c, io), d.err, "no")
     ELSE Ok(notifyNewChunkListeners(s7, c, io))

\* journal.writer.Write(data): appends to the file the descriptor is open on
\* (to nothing visible once that file was removed).  io.write: "ok", "err"
\* (nothing written) or "short" (all but the last byte written).
AppendFile(s, bytes) ==
  IF s.disk[s.writer.fd] = NoFile THEN s
  ELSE [s EXCEPT !.data[s.writer.fd] = @ \o bytes]

\* Write's decision to call newChunk
NeedsNewChunk(s, bytes) ==
  IF s.writer.fd = Nil
    THEN s.chunks.first = Nil
    ELSE maxSize - s.position < Len(bytes)

Write(s, bytes, io) ==
  LET n == IF NeedsNewChunk(s, bytes) THEN newChunk(s, io) ELSE Ok(s)
      s1 == n.s
  IN IF n.err # "" \/ n.panic # "no" THEN n
     ELSE IF s1.writer.fd = Nil THEN Result(s1, "", "nil writer")
     ELSE IF s1.writer.closed \/ io.write = "err" THEN Result(s1, "write", "no")
     ELSE IF io.write = "short"
       THEN Result(AppendFile(s1, SubSeq(bytes, 1, Len(bytes) - 1)), "short", "no")
     ELSE Ok([AppendFile(s1, bytes) EXCEPT !.position = @ + Len(bytes)])

\* A Purge() that does not take back the reference on the oldest chunk.
PurgeNoRehold(s, io) ==
  IF s.chunks.last = Nil THEN Ok(s)
  ELSE Result(deleteRef(s, s.chunks.last, io.rm).s,
              deleteRef(s, s.chunks.last, io.rm).err,
              deleteRef(s, s.chunks.last, io.rm).panic)

\* Purge()
Purge(s, io) ==
  LET lastChunk == s.chunks.last
      d == IF lastChunk # Nil THEN deleteRef(s, lastChunk, io.rm)
           ELSE [s |-> s, err |-> "", panic |-> "no", destroyed |-> FALSE]
      s1 == d.s
      lastChunk2 == s1.chunks.last
  IN IF d.panic # "no" \/ d.err # "" THEN Result(s1, d.err, d.panic)
     ELSE IF lastChunk2 # Nil THEN Ok(AddRef(s1, lastChunk2, 1))
     ELSE Ok(s1)

(***************************************************************************)
(* The environment: which system calls fail in one step (TRUE: it fails),  *)
(* and which listeners keep the wrapper they are handed.                   *)
(***************************************************************************)
NoFault ==
  [open |-> FALSE, close |-> FALSE, rename |-> FALSE, rm |-> {},
   write |-> "ok", keep |-> {}, time |-> 0, nonce |-> 0]
FaultCount(io) ==
  (IF io.open THEN 1 ELSE 0) + (IF io.close THEN 1 ELSE 0)
  + (IF io.rename THEN 1 ELSE 0) + Cardinality(io.rm)
  + (IF io.write # "ok" THEN 1 ELSE 0)
AllIOs ==
  [open : BOOLEAN, close : BOOLEAN, rename : BOOLEAN, rm : SUBSET ChunkIds,
   write : {"ok", "err", "short"}, keep : SUBSET Listeners, time : {0},
   nonce : {0}]
IOs == {io \in AllIOs : FaultCount(io) <= MaxFaults}
\* The environments of a step that only removes files.
RmIOs == {io \in IOs : io = [NoFault EXCEPT !.rm = io.rm]}
\* The environments of a step that only closes a file.
CloseIOs == {io \in IOs : io = [NoFault EXCEPT !.close = io.close]}
Allowed(io) == nFault + FaultCount(io) <= MaxFaults

Records == {[i \in 1..n |-> 0] : n \in 1..MaxLen}   \* the byte strings written

\* An entry of factory.paths: the plugin instance the group was made for and
\* the group (groups are numbered as they are registered).
NoGroup == [pluginInstance |-> "none", group |-> Nil]
FirstGroup == [pluginInstance |-> "a", group |-> 1]

\* No scan of file names is under way.
NoScan == [files |-> <<>>, i |-> 0, chunks |-> <<>>]

\* The process has not panicked and a thread is free to make a call.
Running == crashed = "no" /\ \E t \in Threads : th[t] = Idle
\* journal.mtx.Lock() succeeds
Unlocked == mtx = NoThread

InitJournal ==
  /\ chunk = [c \in ChunkIds |-> NoChunk]
  /\ chunks = [first |-> Nil, last |-> Nil, count |-> 0]
  /\ nAlloc = 0
  /\ disk = [c \in ChunkIds |-> NoFile]
  /\ data = [c \in ChunkIds |-> <<>>]
  /\ writer = NoWriter
  /\ position = 0
  /\ flushListeners = {}
  /\ newChunkListeners = {}
  /\ wrapper = [w \in WrapperIds |-> NoWrapper]
  /\ nWrap = 0
  /\ th = [t \in Threads |-> Idle]
  /\ mtx = NoThread
  /\ nFault = 0
  /\ crashed = "no"
  /\ notified = <<>>
  /\ paths = [p \in Paths |-> IF p = JournalPath THEN FirstGroup ELSE NoGroup]

Init == InitJournal /\ scan = NoScan

\* A method ran as one step and returned r.
Step(r, io) ==
  /\ Commit(r.s)
  /\ crashed' = r.panic
  /\ nFault' = nFault + FaultCount(io)

AddFlushListener(l) ==
  /\ Running
  /\ l \notin flushListeners
  /\ flushListeners' = flushListeners \cup {l}
  /\ UNCHANGED <<chunk, chunks, nAlloc, disk, data, writer, position,
                 newChunkListeners, wrapper, nWrap, th, mtx, nFault, crashed,
                 notified, paths, scan>>

AddNewChunkListener(l) ==
  /\ Running
  /\ l \notin newChunkListeners
  /\ newChunkListeners' = newChunkListeners \cup {l}
  /\ UNCHANGED <<chunk, chunks, nAlloc, disk, data, writer, position,
                 flushListeners, wrapper, nWrap, th, mtx, nFault, crashed,
                 notified, paths, scan>>

\* group.timeGetter() at the k-th call of newChunk returns k: the clock runs
\* ahead of the roll-overs.
Stamped(io) == [io EXCEPT !.time = nAlloc + 1]

\* journal.Write(data)
DoWrite(bytes, io) ==
  /\ Running
  /\ Unlocked
  /\ Allowed(io)
  /\ NeedsNewChunk(State, bytes) => nAlloc < MaxChunks
  /\ Step(Write(State, bytes, Stamped(io)), io)
  /\ UNCHANGED <<th, mtx>>

\* journal.Purge()
DoPurge(io) ==
  /\ Running
  /\ Unlocked
  /\ Allowed(io)
  /\ Step(Purge(State, io), io)
  /\ UNCHANGED <<th, mtx>>

\* journal.Dispose(): closes the writer
JournalDispose(s, io) ==
  IF s.writer.fd = Nil THEN Ok(s)
  ELSE IF io.close \/ s.writer.closed
    THEN Result([s EXCEPT !.writer.closed = TRUE], "close", "no")
  ELSE Ok([s EXCEPT !.writer = NoWriter])

DoDispose(io) ==
  /\ Running
  /\ Unlocked
  /\ Allowed(io)
  /\ Step(JournalDispose(State, io), io)
  /\ UNCHANGED <<th, mtx>>

\* group.Dispose(): journal.Dispose() for each journal of the group, its
\* error dropped.
GroupDispose(s, io) == Ok(JournalDispose(s, io).s)

DoGroupDispose(io) ==
  /\ Running
  /\ Unlocked
  /\ Allowed(io)
  /\ Step(GroupDispose(State, io), io)
  /\ UNCHANGED <<th, mtx>>

(***************************************************************************)
(* Wrappers.  Created(w): wrapper w was handed out.  A wrapper's target is *)
(* the chunk its constructor was given: what the calls in flight hold in   *)
(* their local variable once the field itself was swapped to nil.          *)
(***************************************************************************)
Created(w) == w <= nWrap

\* journal.GetTailChunk()
GetTailChunk(s) ==
  IF s.chunks.last # Nil THEN newChunkWrapper(s, s.chunks.last) ELSE s

DoGetTailChunk ==
  /\ Running
  /\ nWrap < MaxWrappers
  /\ Commit(GetTailChunk(State))
  /\ UNCHANGED <<th, mtx, nFault, crashed>>

\* wrapper.GetNextChunk()
GetNextChunk(s, w) ==
  LET c == s.wrapper[w].chunk
  IN IF c # Nil /\ s.chunk[c].prev # Nil
       THEN newChunkWrapper(s, s.chunk[c].prev)
       ELSE s

DoGetNextChunk(w) ==
  /\ Running
  /\ Created(w)
  /\ nWrap < MaxWrappers
  /\ Commit(GetNextChunk(State, w))
  /\ UNCHANGED <<th, mtx, nFault, crashed>>

\* wrapper.GetReader(): opens chunk.Path for reading
GetReader(s, w) ==
  LET c == s.wrapper[w].chunk
  IN IF c = Nil THEN Result(s, "already disposed", "no")
     ELSE IF ~PathExists(s, c) THEN Result(s, "open", "no")
     ELSE Ok(s)

DoGetReader(w) ==
  /\ Running
  /\ Created(w)
  /\ Step(GetReader(State, w), NoFault)
  /\ UNCHANGED <<th, mtx>>

\* wrapper.TakeOwnership(), from the compare-and-swap on; the result of
\* deleteRef is dropped.
TakeOwnershipCas(s, w, io) ==
  LET d == deleteRef([s EXCEPT !.wrapper[w].ownershipTaken = 1],
                     s.wrapper[w].target, io.rm)
  IN IF s.wrapper[w].ownershipTaken = 0
       THEN Result(d.s, "true", d.panic)
       ELSE Result(s, "false", "no")

\* wrapper.TakeOwnership()
TakeOwnership(s, w, io) ==
  IF s.wrapper[w].chunk = Nil
    THEN Result(s, "false", "no")
    ELSE TakeOwnershipCas(s, w, io)

\* A Dispose() that reads wrapper.chunk and leaves it in place.
DisposeLoadOnly(s, w) == s

\* wrapper.Dispose(), the atomic swap of wrapper.chunk with nil
DisposeSwap(s, w) == [s EXCEPT !.wrapper[w].chunk = Nil]

\* wrapper.Dispose(), after deleteRef returned no error: the refcount of the
\* last chunk is incremented "to rehold the reference".
DisposeRehold(s, w, c, destroyed) ==
  LET prevChunk == s.chunk[c].prev
  IN IF destroyed /\ s.wrapper[w].ownershipTaken # 0
        /\ s.chunk[c].next = Nil /\ prevChunk # Nil
       THEN AddRef(s, prevChunk, 1)
       ELSE s

\* wrapper.Dispose(), after the swap returned the chunk
DisposeRest(s, w, io) ==
  LET c == s.wrapper[w].target
      d == deleteRef(s, c, io.rm)
  IN IF d.panic # "no" \/ d.err # "" THEN Result(d.s, d.err, d.panic)
     ELSE Ok(DisposeRehold(d.s, w, c, d.destroyed))

\* wrapper.Dispose()
Dispose(s, w, io) ==
  IF s.wrapper[w].chunk = Nil
    THEN Result(s, "already disposed", "no")
    ELSE DisposeRest(DisposeSwap(s, w), w, io)

DoTakeOwnership(w, io) ==
  /\ Running
  /\ Created(w)
  /\ Allowed(io)
  /\ Step(TakeOwnership(State, w, io), io)
  /\ UNCHANGED <<th, mtx>>

DoDisposeChunk(w, io) ==
  /\ Running
  /\ Created(w)
  /\ Allowed(io)
  /\ Step(Dispose(State, w, io), io)
  /\ UNCHANGED <<th, mtx>>

(***************************************************************************)
(* Flush(visitor).  The wrapper of each chunk of the snapshot is made just *)
(* before its visitor call, after the list mutex was released.             *)
(***************************************************************************)
\* The chunks from chunks.last along head.prev (oldest first).
RECURSIVE WalkPrev(_, _, _)
WalkPrev(s, c, n) ==
  IF c = Nil \/ n = 0 THEN <<>> ELSE <<c>> \o WalkPrev(s, s.chunk[c].prev, n - 1)

\* chunks := make([]*FileJournalChunk, journal.chunks.count), filled under
\* the list mutex from chunks.last on.
FlushSnapshot(s) ==
  LET walk == WalkPrev(s, s.chunks.last, MaxChunks)
  IN [i \in 1..s.chunks.count |-> IF i <= Len(walk) THEN walk[i] ELSE Nil]
FlushOverrun(s) == Len(WalkPrev(s, s.chunks.last, MaxChunks)) > s.chunks.count

\* The visitor calls from the i-th chunk of the snapshot on: the visitor
\* keeps the wrappers of the positions in keep and fails at position errAt.
RECURSIVE FlushVisits(_, _, _, _, _, _)
FlushVisits(s, snap, i, keep, errAt, io) ==
  IF i > Len(snap) THEN Ok(s)
  ELSE IF snap[i] = Nil THEN Result(s, "", "nil chunk")
  ELSE LET s1 == HandOut(s, snap[i], i \in keep, io.rm)
       IN IF i = errAt THEN Result(s1, "visitor", "no")
          ELSE FlushVisits(s1, snap, i + 1, keep, errAt, io)

\* Flush(visitor): visitor = FALSE is the nil visitor.  Purge's error is
\* dropped.
Flush(s, visitor, keep, errAt, io) ==
  LET v == IF ~visitor THEN Ok(s)
           ELSE IF FlushOverrun(s) THEN Result(s, "", "index")
           ELSE FlushVisits(s, FlushSnapshot(s), 1, keep, errAt, io)
      g == Purge(v.s, io)
  IN IF v.err # "" \/ v.panic # "no" THEN v
     ELSE Result(g.s, "", g.panic)

\* The visitors: the positions whose wrapper the visitor keeps (no more than
\* there are wrappers left) and the position it fails at (0: none).
Visitors ==
  {v \in [keep : SUBSET (1..chunks.count), errAt : 0..chunks.count] :
     /\ Cardinality(v.keep) <= MaxWrappers - nWrap
     /\ v.errAt # 0 => \A i \in v.keep : i <= v.errAt}

DoFlush(visitor, keep, errAt, io) ==
  /\ Running
  /\ Unlocked
  /\ Allowed(io)
  /\ Step(Flush(State, visitor, keep, errAt, io), io)
  /\ UNCHANGED <<th, mtx>>

(***************************************************************************)
(* Start-up: GetJournalGroup scans the directory, rebuilds the chunk list  *)
(* of the journal from the file names, sorts it by Timestamp and validates *)
(* it.  The chunk made for a file takes the file's place in ChunkIds.      *)
(***************************************************************************)
Timestamp(s, c) == DecodeJournalPath(s.disk[c]).Timestamp

\* for i > 0 && rhs.head.next != nil { i -= 1; rhs = rhs.head.next }
RECURSIVE Advance(_, _, _)
Advance(s, rhs, i) ==
  IF i > 0 /\ s.chunk[rhs].next # Nil
    THEN Advance(s, s.chunk[rhs].next, i - 1)
    ELSE [rhs |-> rhs, i |-> i]

\* The innermost loop of sortChunksByTimestamp: the runs at m.lhs and m.rhs
\* are merged to the end of the result list (m.first, m.last), each picked
\* chunk being unlinked from where it was.
RECURSIVE MergeRuns(_, _)
MergeRuns(s, m) ==
  LET takeRhs == /\ m.rhsSize # 0
                 /\ m.rhs # Nil
                 /\ m.lhsSize # 0 => Timestamp(s, m.lhs) < Timestamp(s, m.rhs)
      picked == IF takeRhs THEN m.rhs ELSE m.lhs
      m1 == IF takeRhs
              THEN [m EXCEPT !.rhs = s.chunk[picked].next, !.rhsSize = @ - 1]
              ELSE [m EXCEPT !.lhs = s.chunk[picked].next, !.lhsSize = @ - 1]
      pickedPrev == s.chunk[picked].prev
      pickedNext == s.chunk[picked].next
      s1 == IF pickedPrev # Nil
              THEN [s EXCEPT !.chunk[pickedPrev].next = pickedNext] ELSE s
      s2 == IF pickedNext # Nil
              THEN [s1 EXCEPT !.chunk[pickedNext].prev = pickedPrev] ELSE s1
      s3 == IF m.last # Nil THEN [s2 EXCEPT !.chunk[m.last].next = picked] ELSE s2
      s4 == [s3 EXCEPT !.chunk[picked].prev = m.last, !.chunk[picked].next = Nil]
      m2 == [m1 EXCEPT !.first = IF m.last = Nil THEN picked ELSE @,
                       !.last = picked]
  IN IF m.lhsSize = 0 /\ ~takeRhs THEN [s |-> s, m |-> m]
     ELSE MergeRuns(s4, m2)

\* One pass over the list with runs of k chunks.  first: no second pair of
\* runs was met.
RECURSIVE SortPass(_, _, _, _, _)
\* after the merge r of a pair of runs: lhs = rhs; if lhs == nil { break }
NextRuns(k, first, r) ==
  IF r.m.rhs = Nil
    THEN [s |-> r.s, result |-> [first |-> r.m.first, last |-> r.m.last],
          first |-> first]
    ELSE SortPass(r.s, k, r.m.rhs, [first |-> r.m.first, last |-> r.m.last],
                  FALSE)

\* the runs a pair starts with: a is where rhs was advanced to
Runs(k, lhs, a, result) ==
  [lhs |-> lhs, rhs |-> a.rhs, lhsSize |-> k - a.i, rhsSize |-> k,
   first |-> result.first, last |-> result.last]

SortPass(s, k, lhs, result, first) ==
  NextRuns(k, first, MergeRuns(s, Runs(k, lhs, Advance(s, lhs, k), result)))

\* A sort that stops after its first pass.
NextPassOnce(k, p) ==
  [p.s EXCEPT !.chunks.first = p.result.first, !.chunks.last = p.result.last]

RECURSIVE SortPasses(_, _, _)
\* after the pass p: if first { *chunks = result; break }; k *= 2
NextPass(k, p) ==
  IF p.first
    THEN [p.s EXCEPT !.chunks.first = p.result.first,
                     !.chunks.last = p.result.last]
    ELSE SortPasses(p.s, k * 2, p.result.first)

SortPasses(s, k, lhs) ==
  NextPass(k, SortPass(s, k, lhs, [first |-> Nil, last |-> Nil], TRUE))

\* sortChunksByTimestamp(chunks)
sortChunksByTimestamp(s) ==
  IF s.chunks.first = Nil THEN s ELSE SortPasses(s, 1, s.chunks.first)

\* validateChunks(chunks)
validateChunks(s) ==
  LET heads == {c \in LinkedSet(s) : s.chunk[c].Type = HeadType}
      chunkHead == IF heads = {} THEN Nil ELSE CHOOSE c \in heads : TRUE
  IN IF Cardinality(heads) > 1 THEN "multiple chunk heads found"
     ELSE IF chunkHead # s.chunks.first
       THEN "chunk head does not have the newest timestamp"
     ELSE ""

\* The loop of scanJournals over the names Readdirnames returned (files): each
\* file's chunk is put at the end of the list.
RECURSIVE ScanFiles(_, _, _)
ScanFiles(s, files, i) ==
  IF i > Len(files) THEN s
  ELSE LET c == files[i]
           info == DecodeJournalPath(s.disk[c])
           last == s.chunks.last
           s1 == [s EXCEPT !.chunk[c] = [next |-> Nil, prev |-> last,
                                         Type |-> info.Type, refcount |-> 1]]
           s2 == IF last = Nil THEN [s1 EXCEPT !.chunks.first = c]
                 ELSE [s1 EXCEPT !.chunk[last].next = c]
       IN ScanFiles([s2 EXCEPT !.chunks.last = c, !.chunks.count = @ + 1],
                    files, i + 1)

\* scanJournals(), in a process that has none of the objects of the one
\* before: the journal of the key, or the error.
NewProcess(s) ==
  [s EXCEPT !.chunk = [c \in ChunkIds |-> NoChunk],
            !.chunks = [first |-> Nil, last |-> Nil, count |-> 0],
            !.writer = NoWriter,
            !.position = 0,
            !.flushListeners = {},
            !.newChunkListeners = {},
            !.wrapper = [w \in WrapperIds |-> NoWrapper],
            !.nWrap = 0]
Validated(sorted) == Result(sorted, validateChunks(sorted), "no")
scanJournals(s, files) ==
  Validated(sortChunksByTimestamp(ScanFiles(NewProcess(s), files, 1)))

\* GetJournalGroup(path, pluginInstance) of a new factory: the scan, then the
\* writer is opened on the first chunk of the list.
OpenWriter(s, r, c) ==
  IF r.err # "" THEN Result(s, r.err, "no")
  ELSE IF c = Nil THEN r
  ELSE Ok([AddRef(r.s, c, 1) EXCEPT !.writer = [fd |-> c, closed |-> FALSE],
                                    !.position = Len(s.data[c])])
Scanned(s, r) == OpenWriter(s, r, r.s.chunks.first)
GetJournalGroup(s, files) == Scanned(s, scanJournals(s, files))

\* The group a registration makes: groups are numbered as they are
\* registered.
NewGroup(s, pluginInstance) ==
  [pluginInstance |-> pluginInstance,
   group |-> Cardinality({p \in Paths : s.paths[p] # NoGroup}) + 1]

\* A GetJournalGroup that hands the registered group to any plugin instance.
GetJournalGroupAnyPlugin(s, path, pluginInstance, files) ==
  LET registered == s.paths[path]
      g == IF path = JournalPath THEN GetJournalGroup(s, files) ELSE Ok(s)
  IN IF registered # NoGroup
       THEN [s |-> s, err |-> "", group |-> registered.group]
     ELSE IF g.err # "" THEN [s |-> s, err |-> g.err, group |-> Nil]
     ELSE [s |-> [g.s EXCEPT !.paths[path] = NewGroup(s, pluginInstance)],
           err |-> "", group |-> NewGroup(s, pluginInstance).group]

\* factory.GetJournalGroup(path, pluginInstance), with the look-up in
\* factory.paths and the registration: the group, or the error.  The
\* directory of JournalPath is the modelled one, the directory of any other
\* path holds no file.
FactoryGetJournalGroup(s, path, pluginInstance, files) ==
  LET registered == s.paths[path]
      g == IF path = JournalPath THEN GetJournalGroup(s, files) ELSE Ok(s)
  IN IF registered # NoGroup
       THEN IF registered.pluginInstance = pluginInstance
              THEN [s |-> s, err |-> "", group |-> registered.group]
              ELSE [s |-> s, err |-> "Other plugin already use same buffer_path",
                    group |-> Nil]
     ELSE IF g.err # "" THEN [s |-> s, err |-> g.err, group |-> Nil]
     ELSE [s |-> [g.s EXCEPT !.paths[path] = NewGroup(s, pluginInstance)],
           err |-> "", group |-> NewGroup(s, pluginInstance).group]

\* The orders Readdirnames may list the files of the directory in.
ScanOrders(s) ==
  LET files == {c \in ChunkIds : s.disk[c] # NoFile}
  IN {o \in [1..Cardinality(files) -> files] :
        \A i, j \in 1..Cardinality(files) : o[i] = o[j] => i = j}

\* What a consumer reads that starts at GetTailChunk() and follows
\* GetNextChunk() until nil: the content of each chunk's file.
RECURSIVE ReadChunks(_, _, _)
ReadChunks(s, c, n) ==
  IF c = Nil \/ n = 0 THEN <<>>
  ELSE s.data[c] \o ReadChunks(s, s.chunk[c].prev, n - 1)
Traverse(s) == ReadChunks(s, s.chunks.last, MaxChunks + 1)

\* The bytes written so far are 1, 2, 3, ...: the next record of n bytes.
RECURSIVE Stored(_, _)
Stored(s, c) == IF c = 0 THEN 0 ELSE Len(s.data[c]) + Stored(s, c - 1)
NextRecord(s, n) == [i \in 1..n |-> Stored(s, MaxChunks) + i]

\* journal.Write(data) at any reading of the clock
ScanWrite(n, time, nonce) ==
  /\ Running
  /\ Unlocked
  /\ NeedsNewChunk(State, NextRecord(State, n)) => nAlloc < MaxChunks
  /\ Step(Write(State, NextRecord(State, n),
                [NoFault EXCEPT !.time = time, !.nonce = nonce]), NoFault)
  /\ UNCHANGED <<th, mtx>>

\* The process ends after group.Dispose() and a new one opens the group.
Reopen(files) ==
  /\ Running
  /\ writer.fd = Nil
  /\ Commit(GetJournalGroup(State, files).s)
  /\ UNCHANGED <<th, mtx, nFault, crashed>>

NextScan ==
  \/ \E n \in 1..MaxLen, time \in 0..MaxTime, nonce \in 0..(NonceRange - 1) :
       ScanWrite(n, time, nonce)
  \/ DoDispose(NoFault)
  \/ \E files \in ScanOrders(State) : Reopen(files)

SpecScan == Init /\ [][NextScan]_vars

(***************************************************************************)
(* The loop of scanJournals over file names.  A name is a sequence of      *)
(* characters; pathPrefix has the basename "j", pathSuffix is "l", and the *)
(* variable portion of a journal's file name is its key ("s"), its type    *)
(* ("b": Head, "q": Rest) and its TSuffix (a digit).                       *)
(***************************************************************************)
Chars == {"j", "l", "s", "b", "0"}
Basename == <<"j">>
PathSuffix == <<"l">>
Names == UNION {[1..k -> Chars] : k \in 1..MaxName}

\* strings.HasSuffix(file, pathSuffix)
HasSuffix(file, suffix) ==
  /\ Len(file) >= Len(suffix)
  /\ SubSeq(file, Len(file) - Len(suffix) + 1, Len(file)) = suffix

\* DecodeJournalPath(variablePortion) on the characters of the name
DecodeVariablePortion(v) ==
  IF Len(v) = 3 /\ v[1] = "s" /\ v[2] \in {"b", "q"} /\ v[3] \in {"0", "1"}
    THEN [err |-> FALSE, Key |-> v[1],
          Type |-> IF v[2] = "b" THEN HeadType ELSE Rest,
          TSuffix |-> IF v[3] = "0" THEN 0 ELSE 1,
          VariablePortion |-> v]
    ELSE [err |-> TRUE]

\* One turn of the loop over files_: the scan after it, and whether the
\* slice expression panicked (low bound above the high bound).
ScanName(sc, file) ==
  LET low == Len(Basename)
      high == Len(file) - Len(PathSuffix)
      info == DecodeVariablePortion(SubSeq(file, low + 1, high))
      next == [sc EXCEPT !.i = @ + 1]
  IN IF ~HasSuffix(file, PathSuffix) THEN [sc |-> next, panic |-> FALSE]
     ELSE IF low > high THEN [sc |-> sc, panic |-> TRUE]
     ELSE IF info.err THEN [sc |-> next, panic |-> FALSE]
     ELSE [sc |-> [next EXCEPT !.chunks =
                     Append(@, [Type |-> info.Type, TSuffix |-> info.TSuffix,
                                Path |-> Basename \o info.VariablePortion
                                           \o PathSuffix])],
           panic |-> FALSE]

\* The whole loop
RECURSIVE ScanNames(_)
ScanNames(sc) ==
  IF sc.i > Len(sc.files) THEN [sc |-> sc, panic |-> FALSE]
  ELSE IF ScanName(sc, sc.files[sc.i]).panic THEN [sc |-> sc, panic |-> TRUE]
  ELSE ScanNames(ScanName(sc, sc.files[sc.i]).sc)

\* The directories scanned: the files of a journal, as Readdirnames lists
\* them, and at most one other name anywhere between them.
RestName == <<"j", "s", "q", "0", "l">>
HeadName == <<"j", "s", "b", "1", "l">>
JournalListings == {<<>>, <<HeadName>>, <<RestName, HeadName>>,
                    <<HeadName, RestName>>}
Listings ==
  JournalListings \cup
  UNION {{SubSeq(l, 1, k) \o <<f>> \o SubSeq(l, k + 1, Len(l)) :
            k \in 0..Len(l), f \in Names} : l \in JournalListings}

InitNames ==
  /\ InitJournal
  /\ scan \in {[files |-> l, i |-> 1, chunks |-> <<>>] : l \in Listings}

\* scanJournals handles the next name of the directory.
ScanNextName ==
  /\ crashed = "no"
  /\ scan.i <= Len(scan.files)
  /\ LET r == ScanName(scan, scan.files[scan.i])
     IN /\ scan' = r.sc
        /\ crashed' = IF r.panic THEN "slice bounds out of range" ELSE crashed
  /\ UNCHANGED <<chunk, chunks, nAlloc, disk, data, writer, position,
                 flushListeners, newChunkListeners, wrapper, nWrap, th, mtx,
                 nFault, notified, paths>>

NextNames == ScanNextName

SpecNames == InitNames /\ [][NextNames]_vars

(***************************************************************************)
(* The end of scanJournals: the list the loop has built of the files of a  *)
(* journal (chunk c is the c-th file met) is sorted, then validated.       *)
(***************************************************************************)
SortIds == 1..MaxSort

\* sortChunksByTimestamp(&journalProto.chunks); validateChunks(...)
scanSorted(s) ==
  [s |-> sortChunksByTimestamp(s),
   err |-> validateChunks(sortChunksByTimestamp(s))]

\* The lists the loop can build: n files, with any Timestamps, of which up
\* to two are of Type Head.
InitSort ==
  \E n \in 0..MaxSort :
    \E time \in [1..n -> 0..MaxTime], heads \in SUBSET (1..n) :
      /\ Cardinality(heads) <= 2
      /\ chunk = [c \in SortIds |->
                    IF c > n THEN NoChunk
                    ELSE [next |-> IF c < n THEN c + 1 ELSE Nil,
                          prev |-> c - 1,
                          Type |-> IF c \in heads THEN HeadType ELSE Rest,
                          refcount |-> 1]]
      /\ chunks = [first |-> IF n = 0 THEN Nil ELSE 1, last |-> n, count |-> n]
      /\ disk = [c \in SortIds |->
                   IF c > n THEN NoFile
                   ELSE BuildJournalPath(IF c \in heads THEN HeadType ELSE Rest,
                                         time[c], 0)]
      /\ data = [c \in SortIds |-> <<>>]
      /\ nAlloc = n
      /\ writer = NoWriter
      /\ position = 0
      /\ flushListeners = {}
      /\ newChunkListeners = {}
      /\ wrapper = [w \in WrapperIds |-> NoWrapper]
      /\ nWrap = 0
      /\ th = [t \in Threads |-> [Idle EXCEPT !.pc = "scanned"]]
      /\ mtx = NoThread
      /\ nFault = 0
      /\ crashed = "no"
      /\ notified = <<>>
      /\ paths = [p \in Paths |-> NoGroup]
      /\ scan = NoScan

\* scanJournals sorts and validates the list, and returns.
SortAndValidate ==
  /\ crashed = "no"
  /\ \A t \in Threads : th[t].pc = "scanned"
  /\ chunk' = scanSorted(State).s.chunk
  /\ chunks' = scanSorted(State).s.chunks
  /\ th' = [t \in Threads |->
              [th[t] EXCEPT !.pc = "returned", !.err = scanSorted(State).err]]
  /\ UNCHANGED <<nAlloc, disk, data, writer, position, flushListeners,
                 newChunkListeners, wrapper, nWrap, mtx, nFault, crashed,
                 notified, paths, scan>>

NextSort == SortAndValidate

SpecSort == InitSort /\ [][NextSort]_vars

\* factory.GetJournalGroup(path, pluginInstance) by a plugin instance
DoGetJournalGroup(path, pluginInstance, files) ==
  /\ Running
  /\ Commit(FactoryGetJournalGroup(State, path, pluginInstance, files).s)
  /\ UNCHANGED <<th, mtx, nFault, crashed>>

\* journal.Write(data) on the journal of the group registered for JournalPath
FactoryWrite(n) ==
  /\ paths[JournalPath] # NoGroup
  /\ ScanWrite(n, nAlloc + 1, 0)

\* The process ends after group.Dispose(); the next one has a new factory,
\* with nothing registered.
Restart ==
  /\ Running
  /\ writer.fd = Nil
  /\ paths # [p \in Paths |-> NoGroup]
  /\ Commit([NewProcess(State) EXCEPT !.paths = [p \in Paths |-> NoGroup]])
  /\ UNCHANGED <<th, mtx, nFault, crashed>>

NextFactory ==
  \/ \E path \in Paths, pluginInstance \in PluginInstances,
        files \in ScanOrders(State) :
       DoGetJournalGroup(path, pluginInstance, files)
  \/ \E n \in 1..MaxLen : FactoryWrite(n)
  \/ DoDispose(NoFault)
  \/ Restart

SpecFactory == Init /\ [][NextFactory]_vars

(***************************************************************************)
(* The same methods step by step, for callers in parallel threads.  A step *)
(* is one atomic instruction, one block under the list mutex, or one       *)
(* system call.  deleteRef is not under any mutex but for its unlink       *)
(* block: th[t].stack holds the chunks of its nested calls.                *)
(***************************************************************************)
Top(t) == th[t].stack[Len(th[t].stack)]
Pop(stack) == SubSeq(stack, 1, Len(stack) - 1)

\* deleteRef returns (err, destroyed) from its innermost call.  The calling
\* deleteRef undoes its decrement and returns the error, or goes on to remove
\* its own file; the calling method goes on after its call ("after").
\* The result is <<the thread, the refcounts>>.
RECURSIVE DeleteRefReturn(_, _, _, _)
DeleteRefReturn(thr, ck, err, destroyed) ==
  LET stack == Pop(thr.stack)
      c == stack[Len(stack)]
  IN IF stack = <<>>
       THEN <<[thr EXCEPT !.pc = "after", !.stack = <<>>, !.err = err,
                          !.destroyed = destroyed], ck>>
     ELSE IF err # ""
       THEN DeleteRefReturn([thr EXCEPT !.stack = stack],
                            [ck EXCEPT ![c].refcount = @ + 1], err, FALSE)
     ELSE <<[thr EXCEPT !.pc = "remove", !.stack = stack], ck>>

\* refcount := atomic.AddInt32(&chunk.refcount, -1), and the branch on it
DeleteRefDecrement(t) ==
  /\ crashed = "no"
  /\ th[t].pc = "deleteRef"
  /\ LET c == Top(t)
         refcount == chunk[c].refcount - 1
         ck == [chunk EXCEPT ![c].refcount = refcount]
         back == DeleteRefReturn(th[t], ck, "", FALSE)
     IN IF refcount = 0
          THEN /\ chunk' = ck
               /\ crashed' = crashed
               /\ th' = [th EXCEPT ![t] =
                           IF chunk[c].prev # Nil
                             THEN [@ EXCEPT !.stack = Append(@, chunk[c].prev)]
                             ELSE [@ EXCEPT !.pc = "remove"]]
        ELSE IF refcount < 0
          THEN /\ chunk' = ck
               /\ crashed' = "refcount"
               /\ th' = th
        ELSE /\ chunk' = back[2]
             /\ crashed' = crashed
             /\ th' = [th EXCEPT ![t] = back[1]]
  /\ UNCHANGED <<chunks, nAlloc, disk, data, writer, position, flushListeners,
                 newChunkListeners, wrapper, nWrap, mtx, nFault,
                 notified, paths, scan>>

\* err := os.Remove(chunk.Path)
DeleteRefRemove(t, io) ==
  /\ crashed = "no"
  /\ th[t].pc = "remove"
  /\ Allowed(io)
  /\ LET c == Top(t)
         back == DeleteRefReturn(th[t], [chunk EXCEPT ![c].refcount = @ + 1],
                                 "remove", FALSE)
     IN IF RemoveFails(State, c, io.rm)
          THEN /\ chunk' = back[2]
               /\ th' = [th EXCEPT ![t] = back[1]]
               /\ UNCHANGED <<disk, data>>
          ELSE /\ disk' = Remove(State, c).disk
               /\ data' = Remove(State, c).data
               /\ th' = [th EXCEPT ![t].pc = "unlink"]
               /\ chunk' = chunk
  /\ nFault' = nFault + FaultCount(io)
  /\ UNCHANGED <<chunks, nAlloc, writer, position, flushListeners,
                 newChunkListeners, wrapper, nWrap, mtx, crashed,
                 notified, paths, scan>>

\* the block of deleteRef under journal.chunks.mtx
DeleteRefUnlink(t) ==
  /\ crashed = "no"
  /\ th[t].pc = "unlink"
  /\ LET s == Unlink(State, Top(t))
         back == DeleteRefReturn(th[t], s.chunk, "", TRUE)
     IN /\ chunks' = s.chunks
        /\ chunk' = back[2]
        /\ th' = [th EXCEPT ![t] = back[1]]
  /\ UNCHANGED <<nAlloc, disk, data, writer, position, flushListeners,
                 newChunkListeners, wrapper, nWrap, mtx, nFault, crashed,
                 notified, paths, scan>>

\* A method calls deleteRef(c).
CallDeleteRef(t, op, w, c) ==
  th' = [th EXCEPT ![t] = [Idle EXCEPT !.pc = "deleteRef", !.op = op, !.w = w,
                                       !.stack = <<c>>]]

\* Purge(), up to its call of deleteRef
PurgeLock(t) ==
  /\ crashed = "no"
  /\ th[t] = Idle
  /\ Unlocked
  /\ mtx' = t
  /\ IF chunks.last # Nil
       THEN CallDeleteRef(t, "Purge", Nil, chunks.last)
       ELSE th' = [th EXCEPT ![t] = [Idle EXCEPT !.pc = "after", !.op = "Purge"]]
  /\ UNCHANGED <<chunk, chunks, nAlloc, disk, data, writer, position,
                 flushListeners, newChunkListeners, wrapper, nWrap, nFault,
                 crashed,
                 notified, paths, scan>>

\* Purge(), after deleteRef returned
PurgeRehold(t) ==
  /\ crashed = "no"
  /\ th[t].pc = "after"
  /\ th[t].op = "Purge"
  /\ chunk' = IF th[t].err = "" /\ chunks.last # Nil
                THEN AddRef(State, chunks.last, 1).chunk
                ELSE chunk
  /\ mtx' = NoThread
  /\ th' = [th EXCEPT ![t] = Idle]
  /\ UNCHANGED <<chunks, nAlloc, disk, data, writer, position, flushListeners,
                 newChunkListeners, wrapper, nWrap, nFault, crashed,
                 notified, paths, scan>>

\* TakeOwnership(): chunk := atomic.LoadPointer(&wrapper.chunk)
TakeOwnershipLoad(t, w) ==
  /\ crashed = "no"
  /\ th[t] = Idle
  /\ Created(w)
  /\ th' = [th EXCEPT ![t] =
              IF wrapper[w].chunk = Nil THEN Idle
              ELSE [Idle EXCEPT !.pc = "cas", !.op = "TakeOwnership", !.w = w]]
  /\ UNCHANGED <<chunk, chunks, nAlloc, disk, data, writer, position,
                 flushListeners, newChunkListeners, wrapper, nWrap, mtx,
                 nFault, crashed,
                 notified, paths, scan>>

\* TakeOwnership(): atomic.CompareAndSwapInt64(&wrapper.ownershipTaken, 0, 1)
TakeOwnershipSwap(t) ==
  /\ crashed = "no"
  /\ th[t].pc = "cas"
  /\ LET w == th[t].w
     IN IF wrapper[w].ownershipTaken = 0
          THEN /\ wrapper' = [wrapper EXCEPT ![w].ownershipTaken = 1]
               /\ CallDeleteRef(t, "TakeOwnership", w, wrapper[w].target)
          ELSE /\ wrapper' = wrapper
               /\ th' = [th EXCEPT ![t] = Idle]
  /\ UNCHANGED <<chunk, chunks, nAlloc, disk, data, writer, position,
                 flushListeners, newChunkListeners, nWrap, mtx, nFault,
                 crashed,
                 notified, paths, scan>>

\* TakeOwnership(): return true, whatever deleteRef returned
TakeOwnershipReturn(t) ==
  /\ crashed = "no"
  /\ th[t].pc = "after"
  /\ th[t].op = "TakeOwnership"
  /\ th' = [th EXCEPT ![t] = Idle]
  /\ UNCHANGED <<chunk, chunks, nAlloc, disk, data, writer, position,
                 flushListeners, newChunkListeners, wrapper, nWrap, mtx,
                 nFault, crashed,
                 notified, paths, scan>>

\* Dispose(): chunk := atomic.SwapPointer(&wrapper.chunk, nil)
DisposeSwapPointer(t, w) ==
  /\ crashed = "no"
  /\ th[t] = Idle
  /\ Created(w)
  /\ IF wrapper[w].chunk = Nil
       THEN UNCHANGED <<wrapper, th>>
       ELSE /\ wrapper' = DisposeSwap(State, w).wrapper
            /\ CallDeleteRef(t, "Dispose", w, wrapper[w].chunk)
  /\ UNCHANGED <<chunk, chunks, nAlloc, disk, data, writer, position,
                 flushListeners, newChunkListeners, nWrap, mtx, nFault,
                 crashed,
                 notified, paths, scan>>

\* Dispose(), after deleteRef returned
DisposeReturn(t) ==
  /\ crashed = "no"
  /\ th[t].pc = "after"
  /\ th[t].op = "Dispose"
  /\ chunk' = IF th[t].err # "" THEN chunk
              ELSE DisposeRehold(State, th[t].w, wrapper[th[t].w].target,
                                 th[t].destroyed).chunk
  /\ th' = [th EXCEPT ![t] = Idle]
  /\ UNCHANGED <<chunks, nAlloc, disk, data, writer, position, flushListeners,
                 newChunkListeners, wrapper, nWrap, mtx, nFault, crashed,
                 notified, paths, scan>>

\* Flush(visitor): chunks := make([]*FileJournalChunk, journal.chunks.count),
\* before the list mutex is taken
FlushMake(t) ==
  /\ crashed = "no"
  /\ th[t] = Idle
  /\ th' = [th EXCEPT ![t] =
              [Idle EXCEPT !.pc = "snapshot", !.op = "Flush",
                           !.chunks = [i \in 1..chunks.count |-> Nil]]]
  /\ UNCHANGED <<chunk, chunks, nAlloc, disk, data, writer, position,
                 flushListeners, newChunkListeners, wrapper, nWrap, mtx,
                 nFault, crashed,
                 notified, paths, scan>>

\* Flush(visitor): the block under journal.chunks.mtx fills the slice from
\* chunks.last on; chunks[i] = chunk panics past the end of the slice.
FlushFill(t) ==
  /\ crashed = "no"
  /\ th[t].pc = "snapshot"
  /\ LET walk == WalkPrev(State, chunks.last, MaxChunks)
         n == Len(th[t].chunks)
     IN IF Len(walk) > n
          THEN /\ crashed' = "index"
               /\ th' = th
          ELSE /\ crashed' = crashed
               /\ th' = [th EXCEPT ![t].pc = "visit", ![t].i = 1,
                                   ![t].chunks =
                                     [i \in 1..n |->
                                        IF i <= Len(walk) THEN walk[i] ELSE Nil]]
  /\ UNCHANGED <<chunk, chunks, nAlloc, disk, data, writer, position,
                 flushListeners, newChunkListeners, wrapper, nWrap, mtx,
                 nFault,
                 notified, paths, scan>>

\* Flush(visitor): err := visitor(journal.newChunkWrapper(chunk)) for the
\* next chunk of the slice.  The visitor keeps the wrapper or disposes of it,
\* and returns an error or not (fails).
FlushVisit(t, keepit, fails) ==
  /\ crashed = "no"
  /\ th[t].pc = "visit"
  /\ th[t].i <= Len(th[t].chunks)
  /\ LET c == th[t].chunks[th[t].i]
     IN IF c = Nil
          THEN /\ crashed' = "nil chunk"
               /\ UNCHANGED <<chunk, chunks, nAlloc, disk, data, writer,
                              position, flushListeners, newChunkListeners,
                              wrapper, nWrap, th, notified, paths, scan>>
          ELSE /\ Commit(HandOut(State, c, keepit, {}))
               /\ crashed' = crashed
               /\ th' = [th EXCEPT ![t] =
                           IF fails THEN Idle
                           ELSE [@ EXCEPT !.i = @ + 1]]
  /\ UNCHANGED <<mtx, nFault>>

\* Flush(visitor): journal.Purge() after the last visitor call, up to its call
\* of deleteRef; the rest is Purge's.
FlushPurge(t) ==
  /\ crashed = "no"
  /\ th[t].pc = "visit"
  /\ th[t].i > Len(th[t].chunks)
  /\ Unlocked
  /\ mtx' = t
  /\ IF chunks.last # Nil
       THEN CallDeleteRef(t, "Purge", Nil, chunks.last)
       ELSE th' = [th EXCEPT ![t] = [Idle EXCEPT !.pc = "after", !.op = "Purge"]]
  /\ UNCHANGED <<chunk, chunks, nAlloc, disk, data, writer, position,
                 flushListeners, newChunkListeners, wrapper, nWrap, nFault,
                 crashed,
                 notified, paths, scan>>

\* A record that fills a chunk: each Write after the first rolls over.
FullRecord == [i \in 1..maxSize |-> 0]

NextConc ==
  \/ DoWrite(FullRecord, NoFault)
  \/ DoGetTailChunk
  \/ \E w \in WrapperIds : DoGetNextChunk(w)
  \/ \E t \in Threads : PurgeLock(t)
  \/ \E t \in Threads : PurgeRehold(t)
  \/ \E t \in Threads, w \in WrapperIds : TakeOwnershipLoad(t, w)
  \/ \E t \in Threads : TakeOwnershipSwap(t)
  \/ \E t \in Threads : TakeOwnershipReturn(t)
  \/ \E t \in Threads, w \in WrapperIds : DisposeSwapPointer(t, w)
  \/ \E t \in Threads : DisposeReturn(t)
  \/ \E t \in Threads : DeleteRefDecrement(t)
  \/ \E t \in Threads, io \in RmIOs : DeleteRefRemove(t, io)
  \/ \E t \in Threads : DeleteRefUnlink(t)

SpecConc == Init /\ [][NextConc]_vars

\* journal.Write(data) of a producer, as one step, while calls of other
\* threads are in flight
WriteRollOver ==
  /\ nAlloc < LockChunks
  /\ DoWrite(FullRecord, NoFault)

\* Threads that flush with a visitor while a producer writes (each Write
\* after the first rolls over) and other threads purge, take tail handles
\* and dispose of them.
NextFlush ==
  \/ WriteRollOver
  \/ DoGetTailChunk
  \/ \E t \in Threads : FlushMake(t)
  \/ \E t \in Threads : FlushFill(t)
  \/ \E t \in Threads, keepit \in BOOLEAN, fails \in BOOLEAN :
       FlushVisit(t, keepit, fails)
  \/ \E t \in Threads : FlushPurge(t)
  \/ \E t \in Threads : PurgeLock(t)
  \/ \E t \in Threads : PurgeRehold(t)
  \/ \E t \in Threads, w \in WrapperIds : DisposeSwapPointer(t, w)
  \/ \E t \in Threads : DisposeReturn(t)
  \/ \E t \in Threads : DeleteRefDecrement(t)
  \/ \E t \in Threads : DeleteRefRemove(t, NoFault)
  \/ \E t \in Threads : DeleteRefUnlink(t)

SpecFlush == Init /\ [][NextFlush]_vars

(***************************************************************************)
(* The two mutexes.  A call is a step of its own, and so is each Lock():   *)
(* a thread that waits for a mutex is in its call and not yet past the     *)
(* Lock().  pc = "lock": before journal.mtx.Lock(); a pc of ListBlocks:    *)
(* before journal.chunks.mtx.Lock(), or in the block once locked is set.   *)
(***************************************************************************)
ListBlocks == {"last", "relast", "unlink", "snapshot", "tail", "next", "link"}
\* journal.chunks.mtx is free
ListUnlocked == \A t \in Threads : ~th[t].locked

\* journal.chunks.mtx.Lock()
ListLock(t) ==
  /\ crashed = "no"
  /\ th[t].pc \in ListBlocks
  /\ ~th[t].locked
  /\ ListUnlocked
  /\ th' = [th EXCEPT ![t].locked = TRUE]
  /\ UNCHANGED <<chunk, chunks, nAlloc, disk, data, writer, position,
                 flushListeners, newChunkListeners, wrapper, nWrap, mtx,
                 nFault, crashed,
                 notified, paths, scan>>

\* journal.Write(data) and journal.Purge() are called
WriteCall(t) ==
  /\ crashed = "no"
  /\ th[t] = Idle
  /\ nAlloc + Cardinality({u \in Threads : th[u].op = "Write"}) < LockChunks
  /\ th' = [th EXCEPT ![t] = [Idle EXCEPT !.pc = "lock", !.op = "Write"]]
  /\ UNCHANGED <<chunk, chunks, nAlloc, disk, data, writer, position,
                 flushListeners, newChunkListeners, wrapper, nWrap, mtx,
                 nFault, crashed,
                 notified, paths, scan>>

PurgeCall(t) ==
  /\ crashed = "no"
  /\ th[t] = Idle
  /\ th' = [th EXCEPT ![t] = [Idle EXCEPT !.pc = "lock", !.op = "Purge"]]
  /\ UNCHANGED <<chunk, chunks, nAlloc, disk, data, writer, position,
                 flushListeners, newChunkListeners, wrapper, nWrap, mtx,
                 nFault, crashed,
                 notified, paths, scan>>

\* Flush(visitor): journal.Purge() is called after the last visitor call
FlushPurgeCall(t) ==
  /\ crashed = "no"
  /\ th[t].pc = "visit"
  /\ th[t].i > Len(th[t].chunks)
  /\ th' = [th EXCEPT ![t] = [Idle EXCEPT !.pc = "lock", !.op = "Purge"]]
  /\ UNCHANGED <<chunk, chunks, nAlloc, disk, data, writer, position,
                 flushListeners, newChunkListeners, wrapper, nWrap, mtx,
                 nFault, crashed,
                 notified, paths, scan>>

\* journal.mtx.Lock() of Write and of Purge.  Write goes on to newChunk's
\* block under the list mutex, or to its write; Purge to its first block.
JournalLock(t) ==
  /\ crashed = "no"
  /\ th[t].pc = "lock"
  /\ Unlocked
  /\ mtx' = t
  /\ th' = [th EXCEPT ![t].pc =
              IF th[t].op = "Purge" THEN "last"
              ELSE IF NeedsNewChunk(State, FullRecord) THEN "link"
              ELSE "write"]
  /\ UNCHANGED <<chunk, chunks, nAlloc, disk, data, writer, position,
                 flushListeners, newChunkListeners, wrapper, nWrap, nFault,
                 crashed,
                 notified, paths, scan>>

\* Write under journal.mtx, from newChunk's block under the list mutex on
\* when it rolls over
WriteRun(t) ==
  /\ crashed = "no"
  /\ th[t].pc = "write" \/ (th[t].pc = "link" /\ th[t].locked)
  /\ Step(Write(State, FullRecord, Stamped(NoFault)), NoFault)
  /\ th' = [th EXCEPT ![t].pc = "unlock", ![t].locked = FALSE]
  /\ UNCHANGED mtx

\* the deferred journal.mtx.Unlock() of Write and of Purge
JournalUnlock(t) ==
  /\ crashed = "no"
  /\ th[t].pc = "unlock"
  /\ mtx' = NoThread
  /\ th' = [th EXCEPT ![t] = Idle]
  /\ UNCHANGED <<chunk, chunks, nAlloc, disk, data, writer, position,
                 flushListeners, newChunkListeners, wrapper, nWrap, nFault,
                 crashed,
                 notified, paths, scan>>

\* Purge(): lastChunk = journal.chunks.last under the list mutex, and the
\* call of deleteRef
PurgeLast(t) ==
  /\ crashed = "no"
  /\ th[t].pc = "last"
  /\ th[t].locked
  /\ IF chunks.last # Nil
       THEN CallDeleteRef(t, "Purge", Nil, chunks.last)
       ELSE th' = [th EXCEPT ![t] = [Idle EXCEPT !.pc = "after", !.op = "Purge"]]
  /\ UNCHANGED <<chunk, chunks, nAlloc, disk, data, writer, position,
                 flushListeners, newChunkListeners, wrapper, nWrap, mtx,
                 nFault, crashed,
                 notified, paths, scan>>

\* Purge(), after deleteRef returned: its error is returned
PurgeAfter(t) ==
  /\ crashed = "no"
  /\ th[t].pc = "after"
  /\ th[t].op = "Purge"
  /\ th' = [th EXCEPT ![t].pc = IF th[t].err # "" THEN "unlock" ELSE "relast"]
  /\ UNCHANGED <<chunk, chunks, nAlloc, disk, data, writer, position,
                 flushListeners, newChunkListeners, wrapper, nWrap, mtx,
                 nFault, crashed,
                 notified, paths, scan>>

\* Purge(): lastChunk = journal.chunks.last under the list mutex again, and
\* the reference taken on it
PurgeRelast(t) ==
  /\ crashed = "no"
  /\ th[t].pc = "relast"
  /\ th[t].locked
  /\ chunk' = IF chunks.last # Nil THEN AddRef(State, chunks.last, 1).chunk
              ELSE chunk
  /\ th' = [th EXCEPT ![t].pc = "unlock", ![t].locked = FALSE]
  /\ UNCHANGED <<chunks, nAlloc, disk, data, writer, position, flushListeners,
                 newChunkListeners, wrapper, nWrap, mtx, nFault, crashed,
                 notified, paths, scan>>

\* the block of deleteRef, once journal.chunks.mtx is locked
DeleteRefUnlinkLocked(t) ==
  /\ crashed = "no"
  /\ th[t].pc = "unlink"
  /\ th[t].locked
  /\ LET s == Unlink(State, Top(t))
         back == DeleteRefReturn(th[t], s.chunk, "", TRUE)
     IN /\ chunks' = s.chunks
        /\ chunk' = back[2]
        /\ th' = [th EXCEPT ![t] = [back[1] EXCEPT !.locked = FALSE]]
  /\ UNCHANGED <<nAlloc, disk, data, writer, position, flushListeners,
                 newChunkListeners, wrapper, nWrap, mtx, nFault, crashed,
                 notified, paths, scan>>

\* the block of Flush, once journal.chunks.mtx is locked: a panic in it
\* leaves the mutex locked
FlushFillLocked(t) ==
  /\ crashed = "no"
  /\ th[t].pc = "snapshot"
  /\ th[t].locked
  /\ LET walk == WalkPrev(State, chunks.last, MaxChunks)
         n == Len(th[t].chunks)
     IN IF Len(walk) > n
          THEN /\ crashed' = "index"
               /\ th' = th
          ELSE /\ crashed' = crashed
               /\ th' = [th EXCEPT ![t].pc = "visit", ![t].i = 1,
                                   ![t].locked = FALSE,
                                   ![t].chunks =
                                     [i \in 1..n |->
                                        IF i <= Len(walk) THEN walk[i] ELSE Nil]]
  /\ UNCHANGED <<chunk, chunks, nAlloc, disk, data, writer, position,
                 flushListeners, newChunkListeners, wrapper, nWrap, mtx,
                 nFault,
                 notified, paths, scan>>

\* Flush(visitor): err := visitor(journal.newChunkWrapper(chunk)) with a
\* visitor that calls Dispose() on its handle and returns nil
FlushVisitDispose(t) ==
  /\ crashed = "no"
  /\ th[t].pc = "visit"
  /\ th[t].i <= Len(th[t].chunks)
  /\ LET c == th[t].chunks[th[t].i]
     IN IF c = Nil
          THEN /\ crashed' = "nil chunk"
               /\ UNCHANGED <<chunk, th>>
          ELSE /\ crashed' = crashed
               /\ chunk' = AddRef(State, c, 1).chunk
               /\ th' = [th EXCEPT ![t].pc = "deleteRef", ![t].stack = <<c>>]
  /\ UNCHANGED <<chunks, nAlloc, disk, data, writer, position, flushListeners,
                 newChunkListeners, wrapper, nWrap, mtx, nFault,
                 notified, paths, scan>>

\* Flush(visitor): the visitor returned, the range loop goes on
FlushVisited(t) ==
  /\ crashed = "no"
  /\ th[t].pc = "after"
  /\ th[t].op = "Flush"
  /\ th' = [th EXCEPT ![t].pc = "visit", ![t].i = @ + 1, ![t].err = "",
                      ![t].destroyed = FALSE]
  /\ UNCHANGED <<chunk, chunks, nAlloc, disk, data, writer, position,
                 flushListeners, newChunkListeners, wrapper, nWrap, mtx,
                 nFault, crashed,
                 notified, paths, scan>>

\* journal.GetTailChunk() is called, and its block under the list mutex
TailCall(t) ==
  /\ crashed = "no"
  /\ th[t] = Idle
  /\ nWrap + Cardinality({u \in Threads : th[u].pc \in {"tail", "next"}})
       < LockWrappers
  /\ th' = [th EXCEPT ![t] = [Idle EXCEPT !.pc = "tail", !.op = "GetTailChunk"]]
  /\ UNCHANGED <<chunk, chunks, nAlloc, disk, data, writer, position,
                 flushListeners, newChunkListeners, wrapper, nWrap, mtx,
                 nFault, crashed,
                 notified, paths, scan>>

TailLocked(t) ==
  /\ crashed = "no"
  /\ th[t].pc = "tail"
  /\ th[t].locked
  /\ Commit(GetTailChunk(State))
  /\ th' = [th EXCEPT ![t] = Idle]
  /\ UNCHANGED <<mtx, nFault, crashed>>

\* wrapper.GetNextChunk() is called: the load of wrapper.chunk, and the block
\* under the list mutex
NextCall(t, w) ==
  /\ crashed = "no"
  /\ th[t] = Idle
  /\ Created(w)
  /\ nWrap + Cardinality({u \in Threads : th[u].pc \in {"tail", "next"}})
       < LockWrappers
  /\ th' = [th EXCEPT ![t] =
              IF wrapper[w].chunk = Nil THEN Idle
              ELSE [Idle EXCEPT !.pc = "next", !.op = "GetNextChunk", !.w = w]]
  /\ UNCHANGED <<chunk, chunks, nAlloc, disk, data, writer, position,
                 flushListeners, newChunkListeners, wrapper, nWrap, mtx,
                 nFault, crashed,
                 notified, paths, scan>>

NextLocked(t) ==
  /\ crashed = "no"
  /\ th[t].pc = "next"
  /\ th[t].locked
  /\ LET c == wrapper[th[t].w].target
     IN Commit(IF chunk[c].prev # Nil
                 THEN newChunkWrapper(State, chunk[c].prev)
                 ELSE State)
  /\ th' = [th EXCEPT ![t] = Idle]
  /\ UNCHANGED <<mtx, nFault, crashed>>

\* What a thread does in a call it has started, but for the Lock()s.
ThreadStep(t) ==
  \/ WriteRun(t)
  \/ JournalUnlock(t)
  \/ PurgeLast(t)
  \/ PurgeAfter(t)
  \/ PurgeRelast(t)
  \/ FlushFillLocked(t)
  \/ FlushVisitDispose(t)
  \/ FlushVisited(t)
  \/ FlushPurgeCall(t)
  \/ TailLocked(t)
  \/ NextLocked(t)
  \/ TakeOwnershipSwap(t)
  \/ TakeOwnershipReturn(t)
  \/ DisposeReturn(t)
  \/ DeleteRefDecrement(t)
  \/ DeleteRefRemove(t, NoFault)
  \/ DeleteRefUnlinkLocked(t)

NextLock ==
  \/ \E t \in Threads : WriteCall(t)
  \/ \E t \in Threads : PurgeCall(t)
  \/ \E t \in Threads : FlushMake(t)
  \/ \E t \in Threads : TailCall(t)
  \/ \E t \in Threads, w \in WrapperIds : NextCall(t, w)
  \/ \E t \in Threads, w \in WrapperIds : TakeOwnershipLoad(t, w)
  \/ \E t \in Threads, w \in WrapperIds : DisposeSwapPointer(t, w)
  \/ \E t \in Threads : JournalLock(t)
  \/ \E t \in Threads : ListLock(t)
  \/ \E t \in Threads : ThreadStep(t)

\* The scheduler runs every thread that can take a step, and a thread that
\* waits for a mutex gets it (sync.Mutex hands it to a waiter that starves).
FairLock ==
  \A t \in Threads :
    /\ WF_vars(ThreadStep(t))
    /\ SF_vars(JournalLock(t))
    /\ SF_vars(ListLock(t))

SpecLock == Init /\ [][NextLock]_vars /\ FairLock

Next ==
  \/ \E bytes \in Records, io \in IOs : DoWrite(bytes, io)
  \/ \E io \in RmIOs : DoPurge(io)
  \/ DoGetTailChunk
  \/ \E w \in WrapperIds : DoGetNextChunk(w)
  \/ \E w \in WrapperIds : DoGetReader(w)
  \/ \E w \in WrapperIds, io \in RmIOs : DoTakeOwnership(w, io)
  \/ \E w \in WrapperIds, io \in RmIOs : DoDisposeChunk(w, io)
  \/ \E io \in RmIOs : DoFlush(FALSE, {}, 0, io)
  \/ \E v \in Visitors, io \in RmIOs : DoFlush(TRUE, v.keep, v.errAt, io)

Spec == Init /\ [][Next]_vars

\* The same caller on a file system that never fails.
NextNoFault ==
  \/ \E bytes \in Records : DoWrite(bytes, NoFault)
  \/ DoPurge(NoFault)
  \/ DoGetTailChunk
  \/ \E w \in WrapperIds : DoGetNextChunk(w)
  \/ \E w \in WrapperIds : DoGetReader(w)
  \/ \E w \in WrapperIds : DoTakeOwnership(w, NoFault)
  \/ \E w \in WrapperIds : DoDisposeChunk(w, NoFault)
  \/ DoFlush(FALSE, {}, 0, NoFault)
  \/ \E v \in Visitors : DoFlush(TRUE, v.keep, v.errAt, NoFault)

SpecNoFault == Init /\ [][NextNoFault]_vars

\* A producer that writes, with I/O errors, while recording listeners are
\* registered.
NextListen ==
  \/ \E l \in Recorders : AddFlushListener(l)
  \/ \E l \in Recorders : AddNewChunkListener(l)
  \/ \E bytes \in Records, io \in IOs : DoWrite(bytes, io)

SpecListen == Init /\ [][NextListen]_vars

\* A producer that writes, with I/O errors, and disposes of the journal or of
\* its group in between.
NextDispose ==
  \/ \E bytes \in Records, io \in IOs : DoWrite(bytes, io)
  \/ \E io \in CloseIOs : DoDispose(io)
  \/ \E io \in CloseIOs : DoGroupDispose(io)

SpecDispose == Init /\ [][NextDispose]_vars


(***************************************************************************)
(* Properties.  Spec is the journal used by one caller at a time, with I/O *)
(* errors; SpecConc the journal used by parallel threads, step by step;    *)
(* SpecScan the journal written, disposed of and opened again.             *)
(***************************************************************************)
\* The chunks older than the linked chunk c (after it along head.next).
Older(c) ==
  LET l == Linked(State)
  IN {l[j] : j \in {k \in 1..Len(l) : \E i \in 1..Len(l) : l[i] = c /\ i < k}}

\* Some deleteRef(c) is between its decrement and its return.
InDeleteRef(c) ==
  \E t \in Threads : \E i \in 1..Len(th[t].stack) : th[t].stack[i] = c

\* C1: the chunk list holds at most one chunk of Type Head, and that chunk
\* is the newest one (chunks.first).
C1_OneHeadNewest ==
  /\ Cardinality({c \in LinkedSet(State) : chunk[c].Type = HeadType}) <= 1
  /\ \A c \in LinkedSet(State) : chunk[c].Type = HeadType => c = chunks.first

\* C2 as stated: in every state a linked chunk has refcount >= 1, and a chunk
\* with refcount 0 is unlinked and its file removed.
C2_LinkedHeldAlways ==
  \A c \in 1..nAlloc :
    /\ c \in LinkedSet(State) => chunk[c].refcount >= 1
    /\ (chunk[c].Type # "None" /\ chunk[c].refcount = 0) =>
         (c \notin LinkedSet(State) /\ disk[c] = NoFile)

\* C2: outside the calls of deleteRef on it, a linked chunk has refcount >= 1
\* and a chunk with refcount 0 is unlinked and its file removed.
C2_LinkedHeld ==
  \A c \in 1..nAlloc :
    ~InDeleteRef(c) =>
      /\ c \in LinkedSet(State) => chunk[c].refcount >= 1
      /\ (chunk[c].Type # "None" /\ chunk[c].refcount = 0) =>
           (c \notin LinkedSet(State) /\ disk[c] = NoFile)

\* A chunk was destroyed by a finished deleteRef while another deleteRef is
\* between its steps on a chunk that is still linked.
C2_Witness ==
  /\ \E c \in 1..nAlloc :
       /\ chunk[c].Type # "None" /\ chunk[c].refcount = 0
       /\ ~InDeleteRef(c)
  /\ \E d \in LinkedSet(State) : InDeleteRef(d) /\ chunk[d].refcount = 0

\* C3: no refcount goes below zero; deleteRef's panic is not reached.
C3_NoNegativeRefcount ==
  /\ crashed # "refcount"
  /\ \A c \in ChunkIds : chunk[c].refcount >= 0

\* C4: when a Rest chunk leaves the list, no older chunk stays linked.
C4_DeletionByAge ==
  [][\A c \in LinkedSet(State) :
       (chunk[c].Type = Rest /\ c \notin LinkedSet(State)') =>
         \A o \in Older(c) : o \notin LinkedSet(State)']_vars

\* C5: the chunk of a wrapper that was not disposed of and whose ownership
\* was not taken is linked and has its file.
C5_LiveHandleKeepsChunk ==
  \A w \in WrapperIds :
    (Created(w) /\ wrapper[w].chunk # Nil /\ wrapper[w].ownershipTaken = 0) =>
      /\ wrapper[w].chunk \in LinkedSet(State)
      /\ PathExists(State, wrapper[w].chunk)

\* C6: with two chunks or more, TakeOwnership() = true and then Dispose() =
\* nil on a wrapper of the oldest chunk remove that chunk's file and leave
\* the chunk that was second oldest linked, oldest, with refcount >= 1.
C6_CascadeLaw ==
  \A w \in WrapperIds :
    (/\ crashed = "no"
     /\ Created(w)
     /\ chunks.count >= 2
     /\ wrapper[w].chunk # Nil
     /\ wrapper[w].chunk = chunks.last) =>
      LET oldest == chunks.last
          second == chunk[oldest].prev
          t == TakeOwnership(State, w, NoFault)
          d == Dispose(t.s, w, NoFault)
      IN (t.err = "true" /\ t.panic = "no" /\ d.err = "" /\ d.panic = "no") =>
           /\ d.s.disk[oldest] = NoFile
           /\ second \in LinkedSet(d.s)
           /\ d.s.chunks.last = second
           /\ d.s.chunk[second].refcount >= 1

\* C7: every linked chunk has a file at its path.
C7_LinkedFileExists == \A c \in LinkedSet(State) : PathExists(State, c)

\* Once wrapper.chunk is nil no method of the wrapper succeeds.
DisposedFails(w) ==
  /\ GetReader(State, w).err = "already disposed"
  /\ GetNextChunk(State, w) = State
  /\ TakeOwnership(State, w, NoFault).err = "false"
  /\ Dispose(State, w, NoFault).err = "already disposed"

\* C8 as stated: the Dispose() that swapped the pointer returns nil, and on
\* a disposed wrapper every method fails.
C8_DisposeWinnerOk ==
  /\ \A t \in Threads :
       (th[t].op = "Dispose" /\ th[t].pc = "after") => th[t].err = ""
  /\ \A w \in WrapperIds :
       (Created(w) /\ wrapper[w].chunk = Nil) => DisposedFails(w)

\* C8: a Dispose() calls deleteRef only in the step that swaps wrapper.chunk
\* from a chunk to nil, the pointer stays nil from then on, and on a disposed
\* wrapper every method fails.
C8_DisposeOnce ==
  /\ [](\A w \in WrapperIds :
          (Created(w) /\ wrapper[w].chunk = Nil) => DisposedFails(w))
  /\ [][\A w \in WrapperIds :
          /\ (Created(w) /\ wrapper[w].chunk = Nil) => wrapper'[w].chunk = Nil
          /\ \A t \in Threads :
               (th[t] = Idle /\ th'[t].op = "Dispose" /\ th'[t].w = w) =>
                 (wrapper[w].chunk # Nil /\ wrapper'[w].chunk = Nil)]_vars

\* The Dispose() that swapped the pointer of a wrapper returns the error of
\* deleteRef, and the wrapper is disposed of all the same.
C8_Witness ==
  \E t \in Threads :
    /\ th[t].op = "Dispose" /\ th[t].pc = "after" /\ th[t].err # ""
    /\ wrapper[th[t].w].chunk = Nil

\* The bytes written and not removed: 1, 2, 3, ...
Expected == [i \in 1..Stored(State, MaxChunks) |-> i]

\* C9: after group.Dispose(), whatever order the directory is listed in,
\* GetJournalGroup succeeds, its list starts with the Head chunk, and reading
\* from GetTailChunk() along GetNextChunk() gives the bytes written, in the
\* order written.
C9_ScanRoundTrip ==
  (crashed = "no" /\ writer.fd = Nil) =>
    \A files \in ScanOrders(State) :
      LET r == GetJournalGroup(State, files)
      IN /\ r.err = ""
         /\ Traverse(r.s) = Expected
         /\ r.s.chunks.first # Nil =>
              r.s.chunk[r.s.chunks.first].Type = HeadType

\* C10: with no I/O error, a second Purge() changes nothing that the first
\* one left: list, files, refcounts.
C10_PurgeIdempotent ==
  crashed = "no" =>
    LET p == Purge(State, NoFault)
        q == Purge(p.s, NoFault)
    IN p.panic = "no" => (q.panic = "no" /\ q.err = p.err /\ q.s = p.s)

\* A Purge() that destroys chunks, on a journal with a wrapper whose
\* ownership was taken.
C10_Witness ==
  /\ crashed = "no"
  /\ chunks.count >= 2
  /\ \E w \in WrapperIds :
       Created(w) /\ wrapper[w].chunk # Nil /\ wrapper[w].ownershipTaken = 1
  /\ LET p == Purge(State, NoFault)
     IN p.panic = "no" /\ p.err = "" /\ p.s.chunks.count < chunks.count

\* What the recording listeners were handed in the step.
Appended == SubSeq(notified', Len(notified) + 1, Len(notified'))
\* How often listener l was handed chunk c from the map kind, in the log a.
Calls(a, l, kind, c) ==
  Cardinality({i \in 1..Len(a) :
                 a[i].listener = l /\ a[i].kind = kind /\ a[i].chunk = c})
\* The chunks listener l was handed from the map kind, in the order of the log.
RECURSIVE Handed(_, _, _)
Handed(a, l, kind) ==
  IF a = <<>> THEN <<>>
  ELSE (IF a[1].listener = l /\ a[1].kind = kind THEN <<a[1].chunk>> ELSE <<>>)
       \o Handed(Tail(a), l, kind)
\* The chunk sealed in the step (Head to Rest), the head the step created
\* (newChunk returned it: the writer is on it).
Sealed == {c \in ChunkIds : chunk[c].Type = HeadType /\ chunk'[c].Type = Rest}
NewHeads == {c \in ChunkIds : writer'.fd = c /\ writer.fd # c}

\* C11: in every step each registered new-chunk listener is called once for
\* the head the step created and for no other chunk, each registered flush
\* listener once for the chunk the step sealed and for no other, the flush
\* calls see the chunk as Rest and come before the new-chunk calls; over the
\* run every listener is handed the chunks in the order they were created.
C11_ListenersOncePerChunk ==
  /\ [][/\ SubSeq(notified', 1, Len(notified)) = notified
        /\ \A l \in Recorders, c \in ChunkIds :
             /\ Calls(Appended, l, "new", c) =
                  (IF l \in newChunkListeners /\ c \in NewHeads THEN 1 ELSE 0)
             /\ Calls(Appended, l, "flush", c) =
                  (IF l \in flushListeners /\ c \in Sealed THEN 1 ELSE 0)
        /\ \A i, j \in 1..Len(Appended) :
             (Appended[i].kind = "flush" /\ Appended[j].kind = "new") => i < j
        /\ \A i \in 1..Len(Appended) :
             Appended[i].Type = (IF Appended[i].kind = "flush" THEN Rest
                                 ELSE HeadType)]_vars
  /\ [](\A l \in Recorders, kind \in {"new", "flush"} :
         \A i, j \in 1..Len(Handed(notified, l, kind)) :
           i < j => Handed(notified, l, kind)[i] < Handed(notified, l, kind)[j])

\* Two roll-overs were announced to two listeners of each kind: the second
\* chunk was sealed after the first.
C11_Witness ==
  /\ Handed(notified, "r1", "flush") = <<1, 2>>
  /\ Handed(notified, "r2", "flush") = <<1, 2>>
  /\ Handed(notified, "r1", "new") = <<1, 2, 3>>
  /\ Handed(notified, "r2", "new") = <<2, 3>>

\* The file of chunk c got the bytes of one record at its end in the step.
Grown(c) == \E r \in Records : data'[c] = data[c] \o r

\* C12: a step appends the bytes of a record to one file only; an open
\* writer rolls over before the write exactly when position + len(data) >
\* maxSize; and a file that already holds bytes is never grown beyond
\* maxSize, so only a single record larger than maxSize makes a chunk larger
\* than maxSize.
C12_WriteNeverSplit ==
  /\ [][/\ \A c \in ChunkIds :
             data'[c] = data[c] \/ data'[c] = <<>> \/ Grown(c)
        /\ \A c, d \in ChunkIds :
             (Grown(c) /\ Grown(d) /\ data'[c] # data[c] /\ data'[d] # data[d])
               => c = d
        /\ \A c \in ChunkIds :
             (data[c] # <<>> /\ Grown(c) /\ data'[c] # data[c])
               => Len(data'[c]) <= maxSize]_vars
  /\ [](\A bytes \in Records :
         (crashed = "no" /\ writer.fd # Nil /\ nAlloc < MaxChunks) =>
           (Write(State, bytes, NoFault).s.nAlloc > nAlloc
              <=> position + Len(bytes) > maxSize))

\* C13: while the writer is open the chunk it appends to is the linked head,
\* holds the writer's reference and has its file.
C13_WriterHoldsHead ==
  (crashed = "no" /\ writer.fd # Nil /\ ~writer.closed) =>
    /\ writer.fd \in LinkedSet(State)
    /\ writer.fd = chunks.first
    /\ chunk[writer.fd].refcount >= 1
    /\ PathExists(State, writer.fd)

\* C14: GetJournalGroup for a path that is registered gives the registered
\* group to the plugin instance it was made for and an error and no group
\* to any other, and leaves factory.paths as it is; in the life of a factory
\* the registration of a path never changes.
C14_BindingConflict ==
  /\ [](\A path \in Paths, q \in PluginInstances, files \in ScanOrders(State) :
         paths[path] # NoGroup =>
           LET r == FactoryGetJournalGroup(State, path, q, files)
           IN IF q = paths[path].pluginInstance
                THEN r.err = "" /\ r.group = paths[path].group /\ r.s = State
                ELSE r.err # "" /\ r.group = Nil /\ r.s.paths = paths)
  /\ [][\A path \in Paths :
          (paths[path] # NoGroup /\ paths' # [p \in Paths |-> NoGroup])
            => paths'[path] = paths[path]]_vars

\* Both paths are registered, for different plugin instances, in a process
\* that found the files of an earlier one.
C14_Witness ==
  /\ paths[JournalPath].pluginInstance = "b"
  /\ \E p \in Paths : paths[p].pluginInstance = "a"
  /\ chunks.count >= 2

\* A name of the form prefix, variable portion, suffix that decodes.
IsJournalName(file) ==
  /\ Len(file) >= Len(Basename) + Len(PathSuffix)
  /\ SubSeq(file, 1, Len(Basename)) = Basename
  /\ HasSuffix(file, PathSuffix)
  /\ ~DecodeVariablePortion(
        SubSeq(file, Len(Basename) + 1, Len(file) - Len(PathSuffix))).err

\* C15: the scan does not panic, and when it has gone through the directory
\* it has made the chunks it makes of the directory without the names that
\* are not a journal's.
C15_ForeignFilesSkipped ==
  /\ crashed = "no"
  /\ (scan.i > Len(scan.files)) =>
       scan.chunks =
         ScanNames([files |-> SelectSeq(scan.files, IsJournalName), i |-> 1,
                    chunks |-> <<>>]).sc.chunks

\* C16: a deleteRef(chunk) that returns an error leaves refcounts, list and
\* files as they were before the call, whichever file's removal failed.
C16_DeleteRefAllOrNothing ==
  crashed = "no" =>
    \A c \in LinkedSet(State), f \in ChunkIds :
      chunk[c].refcount >= 1 =>
        LET d == deleteRef(State, c, {f})
        IN (d.panic = "no" /\ d.err # "") => d.s = State

\* C17: when a roll-over fails after the new file was made (Close, Rename or
\* deleteRef failed), the new file is gone, the new chunk is not linked, the
\* prior head is still the only Head and the first of the list, and a later
\* Write succeeds.
C17_FailedRollOverClean ==
  crashed = "no" =>
    \A bytes \in Records, io \in IOs :
      (/\ writer.fd # Nil /\ ~writer.closed
       /\ writer.fd = chunks.first
       /\ NeedsNewChunk(State, bytes)
       /\ nAlloc + 1 < MaxChunks) =>
        LET r == Write(State, bytes, Stamped(io))
            c == nAlloc + 1
            later == Write(r.s, bytes, [NoFault EXCEPT !.time = r.s.nAlloc + 1])
        IN (r.panic = "no" /\ r.err \in {"close", "rename", "remove"}) =>
             /\ r.s.disk[c] = NoFile
             /\ c \notin LinkedSet(r.s)
             /\ r.s.chunks.first = chunks.first
             /\ {h \in LinkedSet(r.s) : r.s.chunk[h].Type = HeadType}
                  = {chunks.first}
             /\ later.err = "" /\ later.panic = "no"

\* scanJournals has returned (SpecSort).
Returned == \A t \in Threads : th[t].pc = "returned"

\* C18: the sorted list is accepted exactly when it holds at most one chunk
\* of Type Head and that chunk, if there is one, is chunks.first; a list
\* without a Head is accepted.
C18_ValidateAtMostOneHead ==
  Returned =>
    LET heads == {c \in LinkedSet(State) : chunk[c].Type = HeadType}
    IN (\A t \in Threads : th[t].err = "")
         <=> (Cardinality(heads) <= 1 /\ \A c \in heads : c = chunks.first)

\* C19: the list sortChunksByTimestamp leaves holds each chunk of the input
\* once, count is the input's, the links and first and last agree, the
\* Timestamps do not increase from chunks.first on, and chunks of one
\* Timestamp are in the order the scan met them.
C19_SortWellFormed ==
  Returned =>
    LET l == Linked(State)
    IN /\ Len(l) = nAlloc /\ chunks.count = nAlloc
       /\ {l[i] : i \in 1..Len(l)} = 1..nAlloc
       /\ chunks.first = (IF l = <<>> THEN Nil ELSE l[1])
       /\ chunks.last = (IF l = <<>> THEN Nil ELSE l[Len(l)])
       /\ \A i \in 1..Len(l) :
            /\ chunk[l[i]].next = (IF i < Len(l) THEN l[i + 1] ELSE Nil)
            /\ chunk[l[i]].prev = (IF i > 1 THEN l[i - 1] ELSE Nil)
       /\ \A i, j \in 1..Len(l) :
            i < j => /\ Timestamp(State, l[i]) >= Timestamp(State, l[j])
                     /\ Timestamp(State, l[i]) = Timestamp(State, l[j])
                          => l[i] < l[j]

\* A sorted list of MaxSort chunks that the scan met in another order, with
\* chunks of equal Timestamp.
C19_Witness ==
  /\ Returned
  /\ nAlloc = MaxSort
  /\ Linked(State) # [i \in 1..nAlloc |-> i]
  /\ \E c, d \in 1..nAlloc : c # d /\ Timestamp(State, c) = Timestamp(State, d)
  /\ \E c, d \in 1..nAlloc : c < d /\ Timestamp(State, c) < Timestamp(State, d)


\* The chunks of a Flush's slice that its visitor was not handed yet.
Pending(t) ==
  IF th[t].op = "Flush" /\ th[t].pc = "visit"
    THEN {th[t].chunks[i] : i \in th[t].i..Len(th[t].chunks)}
    ELSE {}

\* C20: Flush with a visitor, among concurrent writes, purges and handle
\* disposals, fills its slice with the chunks linked under the list mutex and
\* holds a reference on each of them from then on: until its visitor was
\* handed it, a chunk of the slice is a chunk (not a nil entry), its file
\* exists and it is still linked, and Flush does not panic on its slice.
C20_FlushHoldsSnapshot ==
  /\ crashed \notin {"index", "nil chunk"}
  /\ \A t \in Threads : \A c \in Pending(t) :
       /\ c # Nil
       /\ PathExists(State, c)
       /\ c \in LinkedSet(State)

\* C22: Write never reaches journal.writer.Write(data) without an open
\* writer, also after journal.Dispose() or group.Dispose() closed the writer
\* of a journal whose chunk list is not empty: it opens a head or returns an
\* error, and does not panic on the missing writer.
C22_WriteHasWriter == crashed # "nil writer"

\* C21: no thread takes journal.mtx while it holds the list mutex, the
\* methods of a handle (GetNextChunk, TakeOwnership, Dispose) take the list
\* mutex only, and so threads that run Write, Flush, Purge, GetTailChunk and
\* the methods of handles on one journal never deadlock: every call that was
\* started returns.
C21_NoDeadlock ==
  /\ [][\A t \in Threads :
          (mtx' = t /\ mtx # t) => ~th[t].locked /\ ~th'[t].locked]_vars
  /\ [](\A t \in Threads :
          th[t].op \in {"GetNextChunk", "TakeOwnership", "Dispose"} => mtx # t)
  /\ \A t \in Threads : (th[t] # Idle) ~> (th[t] = Idle)
====
